---- MODULE Spec2Model ----
(***************************************************************************)
(* OdooClient (odoo_sdk.py): the JSON-RPC client of the repository.        *)
(* One client instance, one synchronous caller.  The remote service and    *)
(* the network are the environment: every HTTP submission made by _post    *)
(* is answered by a reply (status, body) or by a network exception.        *)
(* The routes of odoo_api.py run on a client of their own; the threads     *)
(* that share a client are modelled by the steps of execute_kw alone.      *)
(***************************************************************************)
EXTENDS Integers, Sequences, FiniteSets, TLC

(* ------------------------------ bounds -------------------------------- *)
\* number of public operations one behaviour issues on the client
MaxOps == 2
\* upper end of the request-id range drawn by random.randint(1, 1_000_000)
MaxRequestId == 2
\* the most pairs an id -> values mapping given to bulk_write holds
MaxPairs == 2
\* the most records the remote collection read by iter_search_read holds
MaxRecords == 2
\* the largest page size given to iter_search_read
MaxBatch == 2

(* --------------------------- JSON values ------------------------------ *)
\* a decoded JSON value: t is the Python type, v the number, s the text
Null == [t |-> "null", v |-> 0, s |-> ""]
Absent == [t |-> "absent", v |-> 0, s |-> ""]
JBool(b) == [t |-> "bool", v |-> IF b THEN 1 ELSE 0, s |-> ""]
JInt(n) == [t |-> "int", v |-> n, s |-> ""]
JStr(x) == [t |-> "str", v |-> 0, s |-> x]
JList(x) == [t |-> "list", v |-> 0, s |-> x]
JDict(x) == [t |-> "dict", v |-> 0, s |-> x]
\* a list whose items matter, and a dict whose keys matter
JSeq(items) == [t |-> "list", v |-> Len(items), s |-> "seq", items |-> items]
JObj(map) == [t |-> "dict", v |-> Cardinality(DOMAIN map), s |-> "obj", map |-> map]

\* isinstance(x, int): bool is a subclass of int in Python
IsInstanceInt(x) == x.t \in {"int", "bool"}

\* truth value of x as Python's `or` / `if` take it
Truthy(x) ==
  CASE x.t \in {"null", "absent"} -> FALSE
    [] x.t \in {"int", "bool"} -> x.v # 0
    [] x.t = "str" -> x.s # ""
    [] x.s \in {"seq", "obj"} -> x.v # 0
    [] OTHER -> x.s \notin {"[]", "{}"}

\* a or b
Or(a, b) == IF Truthy(a) THEN a ELSE b

\* x is None
IsNone(x) == x.t = "null"

(* ----------------------- what the remote can say ---------------------- *)
\* values the remote may put in the `result` field
Results == {Null, JBool(FALSE), JBool(TRUE), JInt(0), JInt(7), JStr("x")}
\* values the remote may put in the `error` field
ErrPayloads == {JStr("AccessDenied"), JStr("ValidationError")}
\* decoded response bodies: an object with an `error` key, a `result` key, or neither
NoBody == [error |-> Absent, result |-> Absent]
Bodies == {[error |-> e, result |-> Absent] : e \in ErrPayloads}
            \cup {[error |-> Absent, result |-> r] : r \in Results \cup {Absent}}
\* HTTP statuses of a reply
Statuses == {200, 404, 500, 503}
\* exceptions Session.post itself raises: ConnectionError, and ReadTimeout
\* (a Timeout that is not a ConnectionError)
NetworkErrors == {"ConnectionError", "ReadTimeout"}

(* ----------------------------- the client ----------------------------- *)
_COMMON == "common"
_OBJECT == "object"

Models == {"project.task"}
OrmMethods == {"read", "write"}

NoPayload == [service |-> "", method |-> "", args |-> <<>>, id |-> 0]
NoEntry ==
  [payload |-> NoPayload, attempt |-> 0,
   outcome |-> [kind |-> "none", status |-> 0, body |-> NoBody], wait |-> 0]
\* the locals of an operation that has none
NoLocals == [phase |-> "", label |-> "", vals |-> <<>>]
\* no generator has been made yet
NoGenerator ==
  [state |-> "none", batch |-> 0, offset |-> 0, records |-> <<>>, pos |-> 0,
   before |-> 0, yielded |-> <<>>, requests |-> <<>>, pages |-> <<>>]
NoResult == [kind |-> "none", exc |-> "", val |-> Null]
Returned(x) == [kind |-> "return", exc |-> "", val |-> x]
Raised(e, x) == [kind |-> "raise", exc |-> e, val |-> x]

VARIABLES
  cfg,         \* url, db, username, api_key, timeout, verify_ssl
  uid,         \* self.uid, the cached token (Null is None)
  pc,          \* "idle": no operation running; "post": inside _post, about to submit
  op,          \* the public operation running (or the last one run)
  req,         \* trailing rpc arguments of the pending object call
  payload,     \* the envelope _json_rpc built for the running call
  attempt,     \* loop variable of _post
  wire,        \* submissions of the running (or last) call: envelope, attempt, outcome, sleep
  authReply,   \* the submission that ended the authenticate call the running operation made first
  lastResult,  \* how the last operation ended
  uid0,        \* uid when the running operation began
  nOps,        \* operations begun so far
  rpcCalls,    \* _json_rpc calls made so far
  usedIds,     \* envelope ids drawn so far
  authCalls,   \* authenticate() invocations so far
  sent,        \* the calls _json_rpc framed for the running operation, in order
  loc,         \* local variables of the running operation
  gen,         \* the generator iter_search_read returned last: its frame (state, batch,
               \* offset, records, pos) and what it did so far (yielded, requests, pages)
  remote,      \* how many records of the remote collection match the generator's domain
  callers      \* threads that call execute_kw at the same time: the clients they
               \* use, where each thread is in execute_kw, and what the clients did

vars == <<cfg, uid, pc, op, req, payload, attempt, wire, authReply, lastResult, uid0,
          nOps, rpcCalls, usedIds, authCalls, sent, loc, gen, remote, callers>>

\* no thread beside the one caller
NoCallers == [shared |-> FALSE, uid |-> <<>>, pc |-> <<>>, token |-> <<>>, begun |-> <<>>,
              invoked |-> <<>>, returned |-> <<>>, raced |-> FALSE]

\* OdooClient.__init__
Init ==
  /\ cfg = [url |-> "https://odoo/jsonrpc", db |-> "db", username |-> "bot",
            api_key |-> "key", timeout |-> 30, verify_ssl |-> TRUE]
  /\ uid = Null
  /\ pc = "idle"
  /\ op = "__init__"
  /\ req = <<>>
  /\ payload = NoPayload
  /\ attempt = 0
  /\ wire = <<>>
  /\ authReply = NoEntry
  /\ lastResult = NoResult
  /\ uid0 = Null
  /\ nOps = 0
  /\ rpcCalls = 0
  /\ usedIds = {}
  /\ authCalls = 0
  /\ sent = <<>>
  /\ loc = NoLocals
  /\ gen = NoGenerator
  /\ remote = 0
  /\ callers = NoCallers

\* random.randint(1, 1_000_000)
RequestIds == 1..MaxRequestId

\* the envelope of _json_rpc
Envelope(service, method, args, id) ==
  [service |-> service, method |-> method, args |-> args, id |-> id]

\* the arguments authenticate() passes
AuthArgs == <<JStr(cfg.db), JStr(cfg.username), JStr(cfg.api_key), JDict("{}")>>

\* leading arguments with the secret before the token
ObjectArgsTokenLast(token) == <<JStr(cfg.db), JStr(cfg.api_key), token>>

\* the leading arguments of every object-namespace call
ObjectArgs(token) == <<JStr(cfg.db), token, JStr(cfg.api_key)>>

\* _json_rpc up to the call of _post: frame the call, enter the retry loop
JsonRpcCall(service, method, args, id) ==
  /\ payload' = Envelope(service, method, args, id)
  /\ attempt' = 0
  /\ pc' = "post"
  /\ rpcCalls' = rpcCalls + 1
  /\ usedIds' = usedIds \cup {id}
  /\ sent' = Append(IF pc = "idle" THEN <<>> ELSE sent,
                    [service |-> service, method |-> method, args |-> args])

\* code of the client starts to run for the caller
Enter(name) ==
  /\ pc = "idle"
  /\ op' = name
  /\ wire' = <<>>
  /\ authReply' = NoEntry
  /\ lastResult' = NoResult
  /\ uid0' = uid

\* the bookkeeping every public operation starts with
Begin(name) ==
  /\ nOps < MaxOps
  /\ nOps' = nOps + 1
  /\ Enter(name)

\* authenticate(): send the authenticate call
AuthenticateCall(id) ==
  /\ JsonRpcCall(_COMMON, "authenticate", AuthArgs, id)
  /\ authCalls' = authCalls + 1

\* execute_kw that never authenticates by itself
KwNeverNeedsAuth(u) == FALSE

\* execute_kw decides to authenticate first
KwNeedsAuth(u) == IsNone(u)

\* execute_batch decides to authenticate first: `self.uid or self.authenticate()`
BatchNeedsAuth(u) == ~Truthy(u)

\* OdooClient.authenticate, called by the user
authenticate ==
  \E id \in RequestIds :
    /\ Begin("authenticate")
    /\ req' = <<>>
    /\ AuthenticateCall(id)
    /\ loc' = NoLocals
    /\ UNCHANGED <<cfg, uid, gen, remote, callers>>

\* OdooClient.execute_kw
execute_kw ==
  \E id \in RequestIds, model \in Models, method \in OrmMethods :
    /\ Begin("execute_kw")
    /\ req' = <<JStr(model), JStr(method), JList("[[1]]"), JDict("{}")>>
    /\ IF KwNeedsAuth(uid)
         THEN AuthenticateCall(id)
         ELSE /\ JsonRpcCall(_OBJECT, "execute_kw", ObjectArgs(uid) \o req', id)
              /\ UNCHANGED authCalls
    /\ loc' = NoLocals
    /\ UNCHANGED <<cfg, uid, gen, remote, callers>>

\* OdooClient.execute_batch
execute_batch ==
  \E id \in RequestIds :
    /\ Begin("execute_batch")
    /\ req' = <<JList("calls")>>
    /\ IF BatchNeedsAuth(uid)
         THEN AuthenticateCall(id)
         ELSE /\ JsonRpcCall(_OBJECT, "execute", ObjectArgs(uid) \o req', id)
              /\ UNCHANGED authCalls
    /\ loc' = NoLocals
    /\ UNCHANGED <<cfg, uid, gen, remote, callers>>

\* OdooClient.version
version ==
  \E id \in RequestIds :
    /\ Begin("version")
    /\ req' = <<>>
    /\ JsonRpcCall(_COMMON, "version", <<>>, id)
    /\ loc' = NoLocals
    /\ UNCHANGED <<cfg, uid, authCalls, gen, remote, callers>>

CrudOps == {"create", "read", "update", "delete", "search", "search_read",
            "search_count", "read_group"}

\* a facade that passes its own name on as the ORM method
OrmMethodOwnName(name) == name

\* the ORM method each wrapper names in its execute_kw call
OrmMethod(name) ==
  CASE name = "update" -> "write"
    [] name = "delete" -> "unlink"
    [] OTHER -> name

\* execute_kw as the wrappers and helpers call it
KwCall(model, method, args, kwargs, id) ==
  /\ req' = <<JStr(model), JStr(method), args, kwargs>>
  /\ IF KwNeedsAuth(uid)
       THEN AuthenticateCall(id)
       ELSE /\ JsonRpcCall(_OBJECT, "execute_kw", ObjectArgs(uid) \o req', id)
            /\ UNCHANGED authCalls
  /\ UNCHANGED <<cfg, uid>>

\* a wrapper that is one execute_kw call
ExecuteKw(name, model, method, args, kwargs, id) ==
  /\ Begin(name)
  /\ KwCall(model, method, args, kwargs, id)
  /\ loc' = NoLocals
  /\ UNCHANGED <<gen, remote, callers>>

\* **kwargs or {}
Kwargs(map) == IF DOMAIN map = {} THEN JDict("{}") ELSE JObj(map)

(* inputs of the wrappers *)
SomeValues == {JDict("vals")}
SomeIds == {JSeq(<<JInt(1)>>)}
SomeFields == {Null}
SomeDomains == {Null}
EmptyList == JSeq(<<>>)
SearchInputs ==
  {[domain |-> JSeq(<<JStr("cond")>>), offset |-> 2, limit |-> JInt(2)]}
SearchReadInputs ==
  {[domain |-> Null, fields |-> Null, offset |-> 0, limit |-> JInt(0), order |-> JStr("")],
   [domain |-> JSeq(<<JStr("cond")>>), fields |-> JSeq(<<JStr("name")>>), offset |-> 2,
    limit |-> JInt(2), order |-> JStr("name")]}

\* the opts search_read builds
SearchReadOpts(fields, offset, limit, order) ==
  LET keys == {k \in {"fields", "offset", "limit", "order"} :
                 \/ k = "fields" /\ ~IsNone(fields)
                 \/ k = "offset" /\ offset # 0
                 \/ k = "limit" /\ ~IsNone(limit)
                 \/ k = "order" /\ Truthy(order)}
  IN  [k \in keys |-> CASE k = "fields" -> fields
                         [] k = "offset" -> JInt(offset)
                         [] k = "limit" -> limit
                         [] OTHER -> order]

\* OdooClient.create
create ==
  \E id \in RequestIds, model \in Models, values \in SomeValues :
    ExecuteKw("create", model, OrmMethod("create"), JSeq(<<values>>), JDict("{}"), id)

\* OdooClient.read
read ==
  \E id \in RequestIds, model \in Models, ids \in SomeIds, fields \in SomeFields :
    ExecuteKw("read", model, OrmMethod("read"),
              JSeq(<<ids, Or(fields, EmptyList)>>), JDict("{}"), id)

\* OdooClient.update
update ==
  \E id \in RequestIds, model \in Models, ids \in SomeIds, values \in SomeValues :
    ExecuteKw("update", model, OrmMethod("update"), JSeq(<<ids, values>>), JDict("{}"), id)

\* OdooClient.delete
delete ==
  \E id \in RequestIds, model \in Models, ids \in SomeIds :
    ExecuteKw("delete", model, OrmMethod("delete"), JSeq(<<ids>>), JDict("{}"), id)

\* OdooClient.search
search ==
  \E id \in RequestIds, model \in Models, in \in SearchInputs :
    ExecuteKw("search", model, OrmMethod("search"),
              JSeq(<<Or(in.domain, EmptyList), JInt(in.offset), in.limit, Null>>),
              JDict("{}"), id)

\* OdooClient.search_read
search_read ==
  \E id \in RequestIds, model \in Models, in \in SearchReadInputs :
    ExecuteKw("search_read", model, OrmMethod("search_read"),
              JSeq(<<Or(in.domain, EmptyList)>>),
              Kwargs(SearchReadOpts(in.fields, in.offset, in.limit, in.order)), id)

\* OdooClient.search_count
search_count ==
  \E id \in RequestIds, model \in Models, domain \in SomeDomains :
    ExecuteKw("search_count", model, OrmMethod("search_count"),
              JSeq(<<Or(domain, EmptyList)>>), JDict("{}"), id)

\* OdooClient.read_group
read_group ==
  \E id \in RequestIds, model \in Models, domain \in SomeDomains :
    ExecuteKw("read_group", model, OrmMethod("read_group"),
              JSeq(<<Or(domain, EmptyList), JSeq(<<JStr("name")>>), JSeq(<<JStr("stage_id")>>)>>),
              JDict("{}"), id)

(* ------------------------------ bulk_write ---------------------------- *)
\* the values a mapping gives for a record id
ValsFor(rid) == JDict(IF rid = 1 THEN "{name: a}" ELSE "{name: b}")

\* the key orders of the mappings: the ids 1..n inserted upwards or downwards
KeyOrders ==
  {[i \in 1..n |-> i] : n \in 0..MaxPairs}
    \cup {[i \in 1..n |-> n + 1 - i] : n \in 0..MaxPairs}

\* id_vals_map.items(), in insertion order
IdValsMaps == {[i \in DOMAIN q |-> [rid |-> q[i], vals |-> ValsFor(q[i])]] : q \in KeyOrders}

\* a call list built back to front
BulkCallsReversed(model, items) ==
  [i \in DOMAIN items |->
     [model |-> model, method |-> "write",
      args |-> <<<<items[Len(items) + 1 - i].rid>>, items[Len(items) + 1 - i].vals>>,
      kwargs |-> "{}"]]

\* the call list bulk_write builds, one write per item
BulkCalls(model, items) ==
  [i \in DOMAIN items |->
     [model |-> model, method |-> "write",
      args |-> <<<<items[i].rid>>, items[i].vals>>, kwargs |-> "{}"]]

\* OdooClient.bulk_write, with the execute_batch it ends in
bulk_write ==
  \E id \in RequestIds, model \in Models, items \in IdValsMaps :
    LET calls == BulkCalls(model, items)
    IN  /\ Begin("bulk_write")
        /\ req' = <<JSeq(calls)>>
        /\ IF BatchNeedsAuth(uid)
             THEN AuthenticateCall(id)
             ELSE /\ JsonRpcCall(_OBJECT, "execute", ObjectArgs(uid) \o req', id)
                  /\ UNCHANGED authCalls
        /\ loc' = [model |-> model, id_vals_map |-> items, calls |-> calls]
        /\ UNCHANGED <<cfg, uid, gen, remote, callers>>

(* --------------------------- iter_search_read -------------------------- *)
BatchSizes == 0..MaxBatch

\* record number i of the remote collection
Record(i) == JInt(i)

\* a generator that goes on from the offset the one before it had reached
FirstOffsetKept(g) == g.before

\* offset = 0
FirstOffset(g) == 0

\* a generator that advances by the page size it asked for
NextOffsetByBatch(g) == g.offset + g.batch

\* a generator that asks for the same page again
NextOffsetStuck(g) == g.offset

\* offset += len(records)
NextOffset(g) == g.offset + Len(g.records)

\* a collection of at most MaxRecords records is read in fewer fetches than this
MaxFetches == MaxRecords + 2

\* OdooClient.iter_search_read: the call makes the generator and runs none of its body
iter_search_read ==
  \E batch \in BatchSizes, n \in 0..MaxRecords :
    /\ pc = "idle"
    /\ nOps < MaxOps
    /\ nOps' = nOps + 1
    /\ gen' = [NoGenerator EXCEPT !.state = "created", !.batch = batch, !.before = gen.offset]
    /\ remote' = n
    /\ UNCHANGED <<cfg, uid, pc, op, req, payload, attempt, wire, authReply, lastResult, uid0,
                   rpcCalls, usedIds, authCalls, sent, loc, callers>>

\* records = self.search_read(model, domain, offset=offset, limit=batch)
Fetch(offset, id) ==
  LET opts == Kwargs(SearchReadOpts(Null, offset, JInt(gen.batch), Null))
  IN  /\ Len(gen.requests) < MaxFetches
      /\ Enter("iter_search_read")
      /\ \E model \in Models :
           KwCall(model, OrmMethod("search_read"), JSeq(<<Or(Null, EmptyList)>>), opts, id)
      /\ gen' = [gen EXCEPT !.state = "running", !.offset = offset,
                            !.requests = Append(@, opts)]
      /\ UNCHANGED <<nOps, loc, remote, callers>>

\* yield from records, one record further
YieldNext ==
  LET record == gen.records[gen.pos + 1]
  IN  /\ gen' = [gen EXCEPT !.pos = @ + 1, !.yielded = Append(@, record)]
      /\ lastResult' = Returned(record)
      /\ op' = "iter_search_read"
      /\ UNCHANGED <<cfg, uid, pc, req, payload, attempt, wire, authReply, uid0, nOps,
                     rpcCalls, usedIds, authCalls, sent, loc, remote, callers>>

\* next() on the generator: its body runs up to the next yield, or to its end
GeneratorNext ==
  /\ pc = "idle"
  /\ gen.state \in {"created", "suspended"}
  /\ IF gen.state = "suspended" /\ gen.pos < Len(gen.records)
       THEN YieldNext
       ELSE \E id \in RequestIds :
              Fetch(IF gen.state = "created" THEN FirstOffset(gen) ELSE NextOffset(gen), id)

(* ------------------------------ move_task ----------------------------- *)
_TASK_MODEL == "project.task"

TaskIds == {1}
StageIds == {5}
StateLabels == {Null, JStr(""), JStr("DoNe")}

\* str.lower(), on the labels that occur
Lower(x) ==
  CASE x \in {"Done", "DONE", "DoNe", "done"} -> "done"
    [] x \in {"Todo", "todo"} -> "todo"
    [] OTHER -> x

\* dict[key] = value
DictSet(d, item) ==
  IF \E i \in 1..Len(d) : d[i].code = item.code
    THEN [i \in 1..Len(d) |-> IF d[i].code = item.code THEN item ELSE d[i]]
    ELSE Append(d, item)

RECURSIVE PyDict(_, _)
\* dict(pairs), built up from d: the items in the order their keys came first
PyDict(d, pairs) ==
  IF pairs = <<>> THEN d ELSE PyDict(DictSet(d, Head(pairs)), Tail(pairs))

\* selection_labels, once fields_get returned meta
SelectionLabels(meta, field) ==
  IF meta.t # "dict" THEN Raised("TypeError", meta)
  ELSE IF field \notin DOMAIN meta.map THEN Raised("KeyError", JStr(field))
  ELSE IF "selection" \notin DOMAIN meta.map[field].map
    THEN Raised("KeyError", JStr("selection"))
  ELSE Returned(PyDict(<<>>, meta.map[field].map.selection.items))

\* a lookup that takes the last item whose label matches
LastCode(sel, state_label) ==
  LET hits == {i \in 1..Len(sel) : Lower(sel[i].label) = Lower(state_label.s)}
  IN  IF hits = {} THEN Raised("StopIteration", Null)
      ELSE Returned(JStr(sel[CHOOSE i \in hits : \A j \in hits : j <= i].code))

\* next(c for c, lbl in sel.items() if lbl.lower() == state_label.lower())
FirstCode(sel, state_label) ==
  LET hits == {i \in 1..Len(sel) : Lower(sel[i].label) = Lower(state_label.s)}
  IN  IF hits = {} THEN Raised("StopIteration", Null)
      ELSE Returned(JStr(sel[CHOOSE i \in hits : \A j \in hits : i <= j].code))

\* the arguments update_task passes on to update
UpdateTaskArgs(task_id, vals) == JSeq(<<JSeq(<<JInt(task_id)>>), JObj(vals)>>)

\* OdooClient.move_task, up to its first call
move_task ==
  \E id \in RequestIds, task_id \in TaskIds, stage_id \in StageIds,
     state_label \in StateLabels :
    LET vals == [stage_id |-> JInt(stage_id)]
        frame == [phase |-> "", task_id |-> task_id, stage_id |-> stage_id,
                  state_label |-> state_label, vals |-> vals, meta |-> Null,
                  caught |-> ""]
    IN  /\ Begin("move_task")
        /\ IF Truthy(state_label)
             THEN /\ KwCall(_TASK_MODEL, "fields_get", JSeq(<<EmptyList>>),
                            Kwargs([attributes |-> JSeq(<<JStr("selection")>>)]), id)
                  /\ loc' = [frame EXCEPT !.phase = "selection_labels"]
             ELSE /\ KwCall(_TASK_MODEL, OrmMethod("update"),
                            UpdateTaskArgs(task_id, vals), JDict("{}"), id)
                  /\ loc' = [frame EXCEPT !.phase = "update_task"]
        /\ UNCHANGED <<gen, remote, callers>>

(* ------------------------------ odoo_api ------------------------------- *)
_PROJECT_MODEL == "project.project"
_STAGE_MODEL == "project.task.type"

\* the routes that test the flag the client returns
CheckedRoutes ==
  {"api_update_project", "api_delete_project", "api_update_stage", "api_delete_stage",
   "api_update_task", "api_delete_task"}

\* the routes that call the client and drop what it returns
UncheckedRoutes == {"api_archive_project", "api_archive_stage", "api_move_task"}

Routes == CheckedRoutes \cup UncheckedRoutes

\* the operations that run the body of OdooClient.move_task
MoveTaskOps == {"move_task", "api_move_task"}

\* get_client: a client made for the request, authenticated by __enter__
\* before the route calls the helper whose execute_kw arguments are given
Route(name, model, method, args, kwargs, frame, id) ==
  /\ pc = "idle"
  /\ nOps < MaxOps
  /\ nOps' = nOps + 1
  /\ op' = name
  /\ wire' = <<>>
  /\ authReply' = NoEntry
  /\ lastResult' = NoResult
  /\ uid' = Null
  /\ uid0' = Null
  /\ req' = <<JStr(model), JStr(method), args, kwargs>>
  /\ AuthenticateCall(id)
  /\ loc' = frame
  /\ UNCHANGED <<cfg, gen, remote, callers>>

\* a route whose helper ends in update(model, [rid], values)
UpdateRoute(name, model, values) ==
  \E id \in RequestIds, rid \in TaskIds :
    Route(name, model, OrmMethod("update"), JSeq(<<JSeq(<<JInt(rid)>>), values>>),
          JDict("{}"), NoLocals, id)

\* a route whose helper ends in delete(model, [rid])
DeleteRoute(name, model) ==
  \E id \in RequestIds, rid \in TaskIds :
    Route(name, model, OrmMethod("delete"), JSeq(<<JSeq(<<JInt(rid)>>)>>), JDict("{}"),
          NoLocals, id)

\* the values archive_* writes
ArchiveValues == {JObj([active |-> JBool(b)]) : b \in BOOLEAN}

api_update_project == \E values \in SomeValues :
  UpdateRoute("api_update_project", _PROJECT_MODEL, values)
api_archive_project == \E values \in ArchiveValues :
  UpdateRoute("api_archive_project", _PROJECT_MODEL, values)
api_delete_project == DeleteRoute("api_delete_project", _PROJECT_MODEL)
api_update_stage == \E values \in SomeValues :
  UpdateRoute("api_update_stage", _STAGE_MODEL, values)
api_archive_stage == \E values \in ArchiveValues :
  UpdateRoute("api_archive_stage", _STAGE_MODEL, values)
api_delete_stage == DeleteRoute("api_delete_stage", _STAGE_MODEL)
api_update_task == \E values \in SomeValues :
  UpdateRoute("api_update_task", _TASK_MODEL, values)
api_delete_task == DeleteRoute("api_delete_task", _TASK_MODEL)

\* the move route: OdooClient.move_task on the client of the request
api_move_task ==
  \E id \in RequestIds, task_id \in TaskIds, stage_id \in StageIds,
     state_label \in StateLabels :
    LET vals == [stage_id |-> JInt(stage_id)]
        frame == [phase |-> IF Truthy(state_label) THEN "selection_labels" ELSE "update_task",
                  task_id |-> task_id, stage_id |-> stage_id,
                  state_label |-> state_label, vals |-> vals, meta |-> Null,
                  caught |-> ""]
    IN  IF Truthy(state_label)
          THEN Route("api_move_task", _TASK_MODEL, "fields_get", JSeq(<<EmptyList>>),
                     Kwargs([attributes |-> JSeq(<<JStr("selection")>>)]), frame, id)
          ELSE Route("api_move_task", _TASK_MODEL, OrmMethod("update"),
                     UpdateTaskArgs(task_id, vals), JDict("{}"), frame, id)

\* what a route answers once its helper returned a flag: an HTTPException,
\* or a body sent with the status of the route
RouteResponse(name, flag) ==
  IF name \in CheckedRoutes /\ ~flag
    THEN Raised("HTTPException", JInt(404))
    ELSE Returned(JInt(IF name \in {"api_delete_project", "api_delete_stage",
                                    "api_delete_task"}
                         THEN 204 ELSE 200))

(* ------------------------------ _post --------------------------------- *)
\* range(3)
Attempts == 3

\* what one submission ends in
Reply(status, body) == [kind |-> "ok", status |-> status, body |-> body]
HTTPError(status) == [kind |-> "HTTPError", status |-> status, body |-> NoBody]
NetworkError(kind) == [kind |-> kind, status |-> 0, body |-> NoBody]

\* Response.raise_for_status raises HTTPError for 4xx and 5xx
RaisesForStatus(status) == 400 <= status /\ status < 600

\* an except clause that also catches timeouts
CaughtWithTimeout(exc) == exc.kind \in {"ConnectionError", "HTTPError", "ReadTimeout"}

\* except (requests.ConnectionError, requests.HTTPError)
Caught(exc) == exc.kind \in {"ConnectionError", "HTTPError"}

\* a handler that gives up one attempt later
ReraisedOneLater(exc, att) == att = 3 \/ (exc.kind = "HTTPError" /\ exc.status < 500)

\* a handler that looks at the attempt number only
ReraisedOnLastOnly(exc, att) == att = 2

\* the handler re-raises: attempt == 2 or isinstance(exc, HTTPError) and status_code < 500
Reraised(exc, att) == att = 2 \/ (exc.kind = "HTTPError" /\ exc.status < 500)

\* a linear back-off
WaitLinear(att) == 2 * att

\* wait = 2 ** attempt
Wait(att) == 2 ^ att

\* one line of the wire log
Entry(outcome, wait) ==
  [payload |-> payload, attempt |-> attempt, outcome |-> outcome, wait |-> wait]

\* what the exception object carries
ExcValue(exc) == IF exc.kind = "HTTPError" THEN JInt(exc.status) ELSE Null

\* an exception that leaves the frame of a generator ends the generator
GenAfter(result) ==
  IF op = "iter_search_read" /\ result.kind = "raise"
    THEN [gen EXCEPT !.state = "finished"]
    ELSE gen

\* an operation that drops the cached token when it ends in an exception
FinishInvalidating(result, entry, token) ==
  /\ pc' = "idle"
  /\ lastResult' = result
  /\ wire' = Append(wire, entry)
  /\ uid' = IF result.kind = "raise" THEN Null ELSE token
  /\ payload' = NoPayload
  /\ attempt' = 0
  /\ gen' = GenAfter(result)
  /\ UNCHANGED <<cfg, op, req, authReply, uid0, nOps, rpcCalls, usedIds, authCalls, sent, loc,
                 remote, callers>>

\* the running code ends: an exception reaches the caller, or a value is
\* returned (or yielded, leaving the generator as g)
\* leaving the context drops the token
ExitClearsToken(token) == Null

\* OdooClient.__exit__: `pass`
__exit__(token) == token

\* the helper of a route ran inside `with OdooClient(...) as odoo`
InContext == op \in Routes /\ Len(sent) > 1

\* the running operation ends; a route whose context was entered leaves it
FinishGen(result, entry, token, g) ==
  /\ pc' = "idle"
  /\ lastResult' = result
  /\ wire' = Append(wire, entry)
  /\ uid' = IF InContext THEN __exit__(token) ELSE token
  /\ payload' = NoPayload
  /\ attempt' = 0
  /\ gen' = g
  /\ UNCHANGED <<cfg, op, req, authReply, uid0, nOps, rpcCalls, usedIds, authCalls, sent, loc,
                 remote, callers>>

\* the running operation ends: an exception reaches the caller, or a value is returned
Finish(result, entry, token) == FinishGen(result, entry, token, GenAfter(result))

\* an except clause that lets nothing through
LookupCaughtAll(exc) == TRUE

\* except (StopIteration, KeyError)
LookupCaught(exc) == exc \in {"StopIteration", "KeyError"}

\* return self.update_task(task_id, vals), the lookup having left `meta` or
\* ended in the exception `caught`
UpdateTask(vals, meta, caught) ==
  \E id \in RequestIds :
    /\ KwCall(_TASK_MODEL, OrmMethod("update"), UpdateTaskArgs(loc.task_id, vals),
              JDict("{}"), id)
    /\ wire' = <<>>
    /\ loc' = [loc EXCEPT !.phase = "update_task", !.vals = vals, !.meta = meta,
                          !.caught = caught]
    /\ UNCHANGED <<op, authReply, lastResult, uid0, nOps, gen, remote, callers>>

\* an exception travels up from a call: the try block of move_task is the only
\* handler it can meet before the caller
Propagate(result, entry) ==
  IF op \in MoveTaskOps /\ loc.phase = "selection_labels" /\ LookupCaught(result.exc)
    THEN UpdateTask(loc.vals, Null, result.exc)
    ELSE Finish(result, entry, uid)

\* a retry that draws a new request identifier
NextSubmissionWithNewId(p) == [p EXCEPT !.id = (p.id % MaxRequestId) + 1]

\* what the next pass of the loop posts: `json=payload`, the argument of _post
NextSubmission(p) == p

\* the except clause of _post, and the statement after the loop
PostFailed(exc) ==
  IF ~Caught(exc) \/ Reraised(exc, attempt)
    THEN Propagate(Raised(exc.kind, ExcValue(exc)), Entry(exc, 0))
    ELSE IF attempt + 1 < Attempts
      THEN /\ wire' = Append(wire, Entry(exc, Wait(attempt)))
           /\ attempt' = attempt + 1
           /\ payload' = NextSubmission(payload)
           /\ UNCHANGED <<cfg, uid, pc, op, req, authReply, lastResult, uid0,
                          nOps, rpcCalls, usedIds, authCalls, sent, loc, gen, remote, callers>>
      ELSE Propagate(Raised("RuntimeError", JStr("Unreachable")),
                     Entry(exc, Wait(attempt)))

(* ---------------------------- _json_rpc ------------------------------- *)
\* a _json_rpc that does not look for the `error` key
JsonRpcResultIgnoringError(body) ==
  Returned(IF body.result = Absent THEN Null ELSE body.result)

\* _json_rpc after _post returned: RPCError on an `error` key, else resp.get("result")
JsonRpcResult(body) ==
  IF body.error # Absent
    THEN Raised("RPCError", body.error)
    ELSE Returned(IF body.result = Absent THEN Null ELSE body.result)

\* authenticate() that stores whatever the remote answers
AuthenticateResultUnchecked(result) == Returned(result)

\* authenticate() after _json_rpc returned
AuthenticateResult(result) ==
  IF ~IsInstanceInt(result)
    THEN Raised("AuthenticationError", result)
    ELSE Returned(result)

\* the method of the object-namespace call an operation makes
ObjectMethod(name) ==
  IF name \in {"execute_batch", "bulk_write"} THEN "execute" ELSE "execute_kw"

(* ----------------------- generic CRUD wrappers ------------------------ *)
\* int(x)
PyInt(x) ==
  CASE x.t \in {"int", "bool"} -> Returned(JInt(x.v))
    [] x.t = "str" -> Raised("ValueError", x)
    [] OTHER -> Raised("TypeError", x)

\* list(x)
PyList(x) ==
  CASE x.t = "list" -> Returned(x)
    [] x.t = "str" -> Returned(JSeq(IF x.s = "" THEN <<>> ELSE <<x>>))
    [] x.t = "dict" -> Returned(JList("keys"))
    [] OTHER -> Raised("TypeError", x)

\* bool(x)
PyBool(x) == Returned(JBool(Truthy(x)))

\* what a wrapper makes of the value execute_kw returned
Convert(name, x) ==
  CASE name \in {"create", "search_count"} -> PyInt(x)
    [] name \in {"read", "search", "search_read", "read_group"} -> PyList(x)
    [] name \in {"update", "delete", "move_task"} -> PyBool(x)
    [] name \in Routes -> RouteResponse(name, Truthy(x))
    [] OTHER -> Returned(x)

\* if not records
PageEnds(records) == ~Truthy(records)

\* the search_read call of the generator returned x
PageReturned(x, entry) ==
  LET records == PyList(x)
  IN  IF records.kind = "raise"
        THEN Finish(records, entry, uid)
        ELSE IF PageEnds(records.val)
          THEN FinishGen(Raised("StopIteration", Null), entry, uid,
                         [gen EXCEPT !.state = "finished", !.records = <<>>, !.pos = 0,
                                     !.pages = Append(@, <<>>)])
          ELSE FinishGen(Returned(records.val.items[1]), entry, uid,
                         [gen EXCEPT !.state = "suspended", !.records = records.val.items,
                                     !.pos = 1,
                                     !.yielded = Append(@, records.val.items[1]),
                                     !.pages = Append(@, records.val.items)])

\* the fields_get call of move_task returned meta
LookupReturned(meta, entry) ==
  LET sel == SelectionLabels(meta, "state")
      code == IF sel.kind = "raise" THEN sel ELSE FirstCode(sel.val, loc.state_label)
  IN  IF code.kind = "raise"
        THEN IF LookupCaught(code.exc)
               THEN UpdateTask(loc.vals, meta, code.exc)
               ELSE Finish(code, entry, uid)
        ELSE UpdateTask([stage_id |-> loc.vals.stage_id, state |-> code.val], meta, "")

\* the object-namespace call of the running operation returned x
CallReturned(x, entry) ==
  IF op = "iter_search_read" THEN PageReturned(x, entry)
  ELSE IF op \in MoveTaskOps /\ loc.phase = "selection_labels" THEN LookupReturned(x, entry)
  ELSE Finish(Convert(op, x), entry, uid)

\* the code that runs once _post returned a response
PostReturned(status, body) ==
  LET entry == Entry(Reply(status, body), 0)
      rpc == JsonRpcResult(body)
      inAuth == payload.service = _COMMON /\ payload.method = "authenticate"
      auth == AuthenticateResult(rpc.val)
  IN  IF rpc.kind = "raise"
        THEN Propagate(rpc, entry)
        ELSE IF ~inAuth
          THEN CallReturned(rpc.val, entry)
          ELSE IF auth.kind = "raise"
            THEN Propagate(auth, entry)
          ELSE IF op = "authenticate"
            THEN Finish(auth, entry, auth.val)
            ELSE \E id \in RequestIds :
                   /\ uid' = auth.val
                   /\ authReply' = entry
                   /\ wire' = <<>>
                   /\ JsonRpcCall(_OBJECT, ObjectMethod(op), ObjectArgs(auth.val) \o req, id)
                   /\ UNCHANGED <<cfg, op, req, lastResult, uid0, nOps, authCalls, loc,
                                  gen, remote, callers>>

\* values the remote may return to the calls of the wrappers
CrudResults == {JBool(FALSE), JBool(TRUE), JInt(7), JStr("x"), JSeq(<<JInt(1)>>)}

\* values the remote may return to a batch of n calls: null, one result per
\* call, or one result too many
BatchResults(n) == {Null} \cup {JSeq([i \in 1..k |-> JBool(TRUE)]) : k \in {n, n + 1}}

\* the offset a search_read call asks for
OffsetOf(kwargs) == IF "offset" \in DOMAIN kwargs.map THEN kwargs.map.offset.v ELSE 0

\* how many records a collection of n may answer with: those from the offset
\* on, at most `limit` of them; fewer at will, but none only when none is left
\* (a limit of 0 is no limit to some remotes and no record to others)
PageSizes(n, offset, limit) ==
  LET left == IF offset < n THEN n - offset ELSE 0
  IN  IF left = 0 THEN {0}
      ELSE IF limit = 0 THEN {0, left}
      ELSE 1..(IF left < limit THEN left ELSE limit)

\* the pages the remote collection may answer a search_read call with
Pages(kwargs) ==
  LET offset == OffsetOf(kwargs)
  IN  {JSeq([i \in 1..k |-> Record(offset + i)]) :
         k \in PageSizes(remote, offset, kwargs.map.limit.v)}

\* the operations called on the client directly
CoreOps == {"__init__", "authenticate", "execute_kw", "execute_batch", "version"}

\* a field's metadata with this selection
Selection(pairs) == JObj([selection |-> JSeq(pairs)])

\* what fields_get may return for the task model: a state field whose
\* selection has two labels equal up to case, one with a single other label,
\* a state field without selection, and no state field
Metas ==
  {JObj([state |-> Selection(<<[code |-> "a", label |-> "Todo"],
                               [code |-> "b", label |-> "Done"],
                               [code |-> "c", label |-> "DONE"]>>)]),
   JObj([state |-> Selection(<<[code |-> "a", label |-> "Todo"]>>)]),
   JObj([state |-> JObj(<<>>)]),
   JObj([name |-> JObj(<<>>)])}

\* the values the remote may put in `result` when it answers the running call
RemoteResults ==
  IF payload.method = "authenticate"
    THEN IF op \in CoreOps THEN Results
         ELSE IF op = "iter_search_read" THEN {JInt(7)}
         ELSE {JBool(FALSE), JInt(7)}
  ELSE IF op \in CrudOps THEN CrudResults
  ELSE IF op = "bulk_write" THEN BatchResults(payload.args[4].v)
  ELSE IF op = "iter_search_read" THEN Pages(payload.args[7])
  ELSE IF op \in Routes \ MoveTaskOps THEN {JBool(FALSE), JBool(TRUE)}
  ELSE IF op \in MoveTaskOps
    THEN IF loc.phase = "selection_labels" THEN Metas ELSE {JBool(FALSE), JBool(TRUE)}
  ELSE Results

\* the statuses the remote may answer the running call with
RemoteStatuses ==
  IF op \in CoreOps THEN Statuses
  ELSE IF op = "iter_search_read" THEN {200, 404}
  ELSE {200, 404, 500}

\* the errors the remote may answer the running call with
RemoteErrors == IF op \in CoreOps THEN ErrPayloads ELSE {JStr("AccessDenied")}

\* the exceptions of the network layer that may end a submission of the running call
RemoteNetworkErrors ==
  IF op = "iter_search_read" THEN {"ReadTimeout"} ELSE NetworkErrors

\* the bodies the remote may answer the running call with
RemoteBodies ==
  {[error |-> e, result |-> Absent] : e \in RemoteErrors}
    \cup {[error |-> Absent, result |-> r] : r \in RemoteResults \cup {Absent}}

\* one submission of _post answered by the remote service
PostReply ==
  /\ pc = "post"
  /\ \E status \in RemoteStatuses :
       IF RaisesForStatus(status)
         THEN PostFailed(HTTPError(status))
         ELSE \E body \in RemoteBodies : PostReturned(status, body)

\* one submission of _post ended by an exception of the network layer
PostException ==
  /\ pc = "post"
  /\ \E kind \in RemoteNetworkErrors : PostFailed(NetworkError(kind))

Next ==
  \/ authenticate
  \/ execute_kw
  \/ execute_batch
  \/ version
  \/ PostReply
  \/ PostException

Spec == Init /\ [][Next]_vars

\* the client used through authenticate() and the generic CRUD wrappers
CrudNext ==
  \/ authenticate
  \/ create
  \/ read
  \/ update
  \/ delete
  \/ search
  \/ search_read
  \/ search_count
  \/ read_group
  \/ PostReply
  \/ PostException

CrudSpec == Init /\ [][CrudNext]_vars

\* the client used through bulk_write()
BatchNext ==
  \/ bulk_write
  \/ PostReply
  \/ PostException

BatchSpec == Init /\ [][BatchNext]_vars

\* the client used through iter_search_read() and its generator
PagerNext ==
  \/ iter_search_read
  \/ GeneratorNext
  \/ PostReply
  \/ PostException

PagerSpec == Init /\ [][PagerNext]_vars

\* the client used through authenticate(), update() and move_task()
TaskNext ==
  \/ authenticate
  \/ update
  \/ move_task
  \/ PostReply
  \/ PostException

TaskSpec == Init /\ [][TaskNext]_vars

\* the update, archive, move and delete routes of the HTTP facade
FacadeNext ==
  \/ api_update_project
  \/ api_archive_project
  \/ api_delete_project
  \/ api_update_stage
  \/ api_archive_stage
  \/ api_delete_stage
  \/ api_update_task
  \/ api_move_task
  \/ api_delete_task
  \/ PostReply
  \/ PostException

FacadeSpec == Init /\ [][FacadeNext]_vars

(* ------------------- threads that call execute_kw --------------------- *)
(* The steps of execute_kw between which another thread can run: the test  *)
(* of self.uid, the authenticate round trip and its assignment to          *)
(* self.uid, the read of self.uid for rpc_args, the object round trip.     *)

\* operations one thread runs, one after the other
MaxCalls == 2

\* the two threads
Callers == {1, 2}

\* what the remote answers to authenticate
AuthResults == {Null, JBool(FALSE), JInt(7)}

\* every thread works on the first client
ClientOfFirst(t) == 1

\* the client a thread works on: the one all share, or its own
ClientOf(t) == IF callers.shared THEN 1 ELSE t

\* the state of the one synchronous caller, which the threads leave alone
oneCaller == <<cfg, uid, pc, op, req, payload, attempt, wire, authReply, lastResult, uid0,
               nOps, rpcCalls, usedIds, authCalls, sent, loc, gen, remote>>

\* another thread is inside authenticate() on the client of thread t
OtherAuthenticating(t) ==
  \E o \in Callers \ {t} : ClientOf(o) = ClientOf(t) /\ callers.pc[o] = "authenticate"

\* the threads start, on one OdooClient or on one each, uid None
StartCallers ==
  /\ callers = NoCallers
  /\ \E shared \in BOOLEAN :
       callers' = [shared |-> shared, uid |-> <<Null, Null>>, pc |-> <<"idle", "idle">>,
                   token |-> <<Null, Null>>, begun |-> <<0, 0>>, invoked |-> <<0, 0>>,
                   returned |-> <<0, 0>>, raced |-> FALSE]
  /\ UNCHANGED oneCaller

\* execute_kw: `if self.uid is None: self.authenticate()`
KwCheck(t) ==
  LET c == ClientOf(t)
  IN  /\ callers # NoCallers
      /\ callers.pc[t] = "idle"
      /\ callers.begun[t] < MaxCalls
      /\ callers' =
           IF KwNeedsAuth(callers.uid[c])
             THEN [callers EXCEPT !.begun[t] = @ + 1, !.pc[t] = "authenticate",
                                  !.invoked[c] = @ + 1,
                                  !.raced = @ \/ OtherAuthenticating(t)]
             ELSE [callers EXCEPT !.begun[t] = @ + 1, !.pc[t] = "rpc_args"]
      /\ UNCHANGED oneCaller

\* authenticate(): the round trip is answered with a result; `self.uid = result`
AuthReturned(t) ==
  \E result \in AuthResults :
    LET c == ClientOf(t)
        auth == AuthenticateResult(result)
    IN  /\ callers # NoCallers
        /\ callers.pc[t] = "authenticate"
        /\ callers' =
             IF auth.kind = "raise"
               THEN [callers EXCEPT !.pc[t] = "idle"]
               ELSE [callers EXCEPT !.pc[t] = "rpc_args", !.uid[c] = auth.val,
                                    !.returned[c] = @ + 1]
        /\ UNCHANGED oneCaller

\* authenticate(): _json_rpc raised (transport error or RPCError)
AuthRaised(t) ==
  /\ callers # NoCallers
  /\ callers.pc[t] = "authenticate"
  /\ callers' = [callers EXCEPT !.pc[t] = "idle"]
  /\ UNCHANGED oneCaller

\* rpc_args = [self.db, self.uid, self.api_key, ...]
RpcArgs(t) ==
  /\ callers # NoCallers
  /\ callers.pc[t] = "rpc_args"
  /\ callers' = [callers EXCEPT !.pc[t] = "call", !.token[t] = callers.uid[ClientOf(t)]]
  /\ UNCHANGED oneCaller

\* the object round trip ended: execute_kw returns or raises
CallEnded(t) ==
  /\ callers # NoCallers
  /\ callers.pc[t] = "call"
  /\ callers' = [callers EXCEPT !.pc[t] = "idle"]
  /\ UNCHANGED oneCaller

CallersNext ==
  \/ StartCallers
  \/ \E t \in Callers : KwCheck(t)
  \/ \E t \in Callers : AuthReturned(t)
  \/ \E t \in Callers : AuthRaised(t)
  \/ \E t \in Callers : RpcArgs(t)
  \/ \E t \in Callers : CallEnded(t)

CallersSpec == Init /\ [][CallersNext]_vars

\* the consumer keeps asking for the next item, and every request submitted
\* is answered or fails
PagerFairSpec ==
  PagerSpec /\ WF_vars(GeneratorNext) /\ WF_vars(PostReply \/ PostException)

(* ------------------------- reading the wire log ----------------------- *)
Last(run) == run[Len(run)]

\* a connection error or a 5xx status
Transient(o) ==
  o.kind = "ConnectionError" \/ (o.kind = "HTTPError" /\ o.status >= 500)
\* a 4xx status
ClientError(o) == o.kind = "HTTPError" /\ o.status >= 400 /\ o.status < 500
\* submission i of the log is followed by another submission of the same envelope
Retried(i) ==
  IF i < Len(wire)
    THEN wire[i + 1].payload = wire[i].payload
    ELSE pc = "post" /\ payload = wire[i].payload
\* the exceptions _post lets out
TransportErrors == {"ConnectionError", "HTTPError", "ReadTimeout", "RuntimeError"}
\* submission i ended the operation with the exception it met
Propagated(i) ==
  /\ i = Len(wire)
  /\ pc = "idle"
  /\ wire[i].wait = 0
  /\ lastResult = Raised(wire[i].outcome.kind, ExcValue(wire[i].outcome))
\* the three submissions of the call all failed transiently
ThreeFailures == Len(wire) = 3 /\ \A i \in 1..3 : Transient(wire[i].outcome)

(* ------------------------------- C1 ----------------------------------- *)
\* C1 (as stated): a third consecutive transient failure is not fatal: after
\* three failed submissions _post has slept and is about to submit a fourth time.
C1_FourthFailureIsFatal ==
  ThreeFailures => (pc = "post" /\ payload = wire[3].payload /\ wire[3].wait > 0)

\* C1 (amended): k <= 2 transient failures followed by a success end in the
\* response being returned after exactly k retries, the i-th retry waiting
\* 2^(i-1) seconds; the third consecutive transient failure is fatal.
C1_RetryThenSuccess ==
  /\ (wire # <<>> /\ Last(wire).outcome.kind = "ok") =>
       /\ Len(wire) - 1 <= 2
       /\ \A i \in 1..(Len(wire) - 1) :
            /\ Transient(wire[i].outcome)
            /\ wire[i].wait = 2 ^ (i - 1)
            /\ wire[i].payload = Last(wire).payload
       /\ Last(wire).wait = 0
       /\ Last(wire).attempt = Len(wire) - 1
       /\ pc = "idle"
       /\ lastResult.exc \notin TransportErrors
  /\ authReply # NoEntry =>
       /\ authReply.outcome.kind = "ok"
       /\ authReply.attempt <= 2
       /\ authReply.wait = 0
  /\ ThreeFailures =>
       /\ pc = "idle"
       /\ lastResult = Raised(wire[3].outcome.kind, ExcValue(wire[3].outcome))

\* two transient failures, then a success
C1_Witness ==
  /\ Len(wire) = 3
  /\ Transient(wire[1].outcome) /\ Transient(wire[2].outcome)
  /\ wire[3].outcome.kind = "ok"
  /\ pc = "idle" /\ lastResult.kind = "return"

(* ------------------------------- C2 ----------------------------------- *)
\* C2: one _post makes at most 3 submissions; the n-th retry is preceded by a
\* sleep of 2^(n-1) seconds; a transient failure on the 3rd submission is
\* raised without sleeping; RuntimeError("Unreachable") is never raised.
C2_AtMostThreeSubmissions ==
  /\ attempt \in 0..2
  /\ lastResult.exc # "RuntimeError"
  /\ Len(wire) <= 3
  /\ pc = "post" => attempt = Len(wire)
  /\ \A n \in 1..Len(wire) :
       /\ wire[n].attempt = n - 1
       /\ (n < Len(wire) \/ pc = "post") => wire[n].wait = 2 ^ (n - 1)
  /\ (Len(wire) = 3 /\ Transient(wire[3].outcome)) =>
       /\ wire[3].wait = 0
       /\ pc = "idle"
       /\ lastResult.kind = "raise"
       /\ lastResult.exc = wire[3].outcome.kind

\* a call whose three submissions all failed transiently
C2_Witness ==
  /\ pc = "idle"
  /\ ThreeFailures
  /\ \A i \in 1..3 : wire[i].payload = wire[1].payload
  /\ lastResult.kind = "raise"

(* ------------------------------- C3 ----------------------------------- *)
\* C3: a 4xx reply, on whichever attempt, is raised at once: no sleep, no
\* further submission.
C3_ClientErrorNeverRetried ==
  \A i \in 1..Len(wire) :
    ClientError(wire[i].outcome) => (Propagated(i) /\ ~Retried(i))

\* a 4xx reply met on the second attempt, with one retry still in the budget
C3_Witness ==
  /\ Len(wire) = 2
  /\ Transient(wire[1].outcome)
  /\ ClientError(wire[2].outcome)
  /\ wire[2].attempt = 1

ValidToken(x) == x.t = "int"
\* the explicit authenticate() got a body without an `error` key
AuthAnswered ==
  /\ wire # <<>>
  /\ Last(wire).outcome.kind = "ok"
  /\ Last(wire).outcome.body.error = Absent
AuthAnswer ==
  IF Last(wire).outcome.body.result = Absent THEN Null ELSE Last(wire).outcome.body.result

\* C5: authenticate() makes one authentication call and caches the answer in
\* uid only when it is a valid token; on any other answer, false included, it
\* raises AuthenticationError and leaves uid as it was.
C5_AuthenticateCachesOnlyValidToken ==
  (pc = "idle" /\ op = "authenticate") =>
    /\ \A i \in 1..Len(wire) :
         /\ wire[i].payload = wire[1].payload
         /\ wire[i].payload.service = _COMMON
         /\ wire[i].payload.method = "authenticate"
    /\ IF AuthAnswered /\ ValidToken(AuthAnswer)
         THEN lastResult = Returned(AuthAnswer) /\ uid = AuthAnswer
         ELSE lastResult.kind = "raise" /\ uid = uid0
    /\ (AuthAnswered /\ ~ValidToken(AuthAnswer)) =>
         lastResult = Raised("AuthenticationError", AuthAnswer)

(* ------------------------------- C6 ----------------------------------- *)
LazyOps == {"execute_kw", "execute_batch"}

\* C6: an authenticated operation invokes authenticate() only while no token
\* is cached, so never again once uid holds a value.
C6_NoAuthenticationWhileTokenCached ==
  [][(op' \in LazyOps /\ authCalls' = authCalls + 1) => IsNone(uid)]_vars

(* ------------------------------- C7 ----------------------------------- *)
\* the running operation has framed its object-namespace call
ObjectCallMade ==
  \/ pc = "post" /\ payload.service = _OBJECT
  \/ pc = "idle" /\ wire # <<>> /\ wire[1].payload.service = _OBJECT
ObjectCall == IF pc = "post" THEN payload ELSE wire[1].payload

C8_NoAutomaticReauthentication ==
  (op \in LazyOps /\ pc = "idle" /\ lastResult.kind = "raise" /\ ObjectCallMade) =>
    /\ \A i \in 1..Len(wire) : wire[i].payload = wire[1].payload
    /\ (~IsNone(uid0) /\ op = "execute_kw") => (authReply = NoEntry /\ uid = uid0)
    /\ (Truthy(uid0) /\ op = "execute_batch") => (authReply = NoEntry /\ uid = uid0)
    /\ uid = wire[1].payload.args[2]
    /\ LET o == Last(wire).outcome
       IN  lastResult = IF o.kind = "ok" THEN Raised("RPCError", o.body.error)
                        ELSE Raised(o.kind, ExcValue(o))

\* execute_kw on a client with a cached token got an RPC error
C8_Witness ==
  /\ op = "execute_kw"
  /\ ~IsNone(uid0)
  /\ pc = "idle"
  /\ lastResult.exc = "RPCError"
  /\ ObjectCallMade

(* ------------------------------- C9 ----------------------------------- *)
\* C9: a reply whose body has an `error` key ends the call with RPCError
\* carrying that value, and the envelope is not submitted again; a body
\* without one makes _json_rpc return the `result` field as it is.
C9_RpcErrorRaisedOnce ==
  \A i \in 1..Len(wire) :
    LET o == wire[i].outcome
    IN  o.kind = "ok" =>
          /\ ~Retried(i)
          /\ i = Len(wire)
          /\ pc = "idle"
          /\ o.body.error # Absent => lastResult = Raised("RPCError", o.body.error)
          /\ (o.body.error = Absent /\ wire[i].payload.method # "authenticate") =>
               lastResult = Returned(IF o.body.result = Absent THEN Null ELSE o.body.result)

\* the first submission of a call was answered by an error body
C9_Witness ==
  /\ Len(wire) = 1
  /\ wire[1].outcome.kind = "ok"
  /\ wire[1].outcome.body.error \in ErrPayloads
  /\ pc = "idle"
  /\ lastResult.exc = "RPCError"

(* ------------------------------- C10 ---------------------------------- *)
\* C10: no two calls of the client carry the same envelope id.
C10_RequestIdsUnique == Cardinality(usedIds) = rpcCalls

(* ------------------------------- C11 ---------------------------------- *)
\* the ORM method the CRUD facade is documented to name for each wrapper
CanonicalName ==
  [create |-> "create", read |-> "read", update |-> "write", delete |-> "unlink",
   search |-> "search", search_read |-> "search_read",
   search_count |-> "search_count", read_group |-> "read_group"]

\* a CRUD wrapper is running, or was the last to run, on a client that held a token
CrudOnCachedToken == op \in CrudOps /\ ~IsNone(uid0)

\* C11: a CRUD wrapper called on a client whose token is cached frames exactly
\* one call, whatever its outcome: it goes to the object namespace as
\* execute_kw, leads with db, the cached token and the secret, and names the
\* canonical ORM method; no authentication call precedes it.
C11_OneCanonicalCall ==
  CrudOnCachedToken =>
    /\ Len(sent) = 1
    /\ authReply = NoEntry
    /\ sent[1].service = _OBJECT
    /\ sent[1].method = "execute_kw"
    /\ Len(sent[1].args) = 7
    /\ SubSeq(sent[1].args, 1, 3) = ObjectArgs(uid0)
    /\ sent[1].args[5] = JStr(CanonicalName[op])
    /\ \A i \in 1..Len(wire) : wire[i].payload.args = sent[1].args

\* update() on a cached token ended in an RPC error and was not tried again
C11_Witness ==
  /\ CrudOnCachedToken
  /\ op = "update"
  /\ pc = "idle"
  /\ lastResult.exc = "RPCError"
  /\ Len(sent) = 1
  /\ sent[1].args[5] = JStr("write")

(* ------------------------------- C12 ---------------------------------- *)
\* the batch calls among the calls framed for the running operation
BatchCalls == SelectSeq(sent, LAMBDA c : c.service = _OBJECT /\ c.method = "execute")

\* the write call the batch is documented to hold for one pair
WriteCallFor(model, pair) ==
  [model |-> model, method |-> "write", args |-> <<<<pair.rid>>, pair.vals>>, kwargs |-> "{}"]

\* bulk_write returned a value to its caller
BulkWriteReturned == op = "bulk_write" /\ pc = "idle" /\ lastResult.kind = "return"

RECURSIVE Flatten(_)
\* the records of a sequence of pages, in page order
Flatten(ps) == IF ps = <<>> THEN <<>> ELSE Head(ps) \o Flatten(Tail(ps))

\* how many records the first k pages received hold
Received(k) == Len(Flatten(SubSeq(gen.pages, 1, k)))

\* the generator has ended on an empty page
IterationComplete ==
  gen.state = "finished" /\ gen.pages # <<>> /\ Last(gen.pages) = <<>>

\* C13: the k-th search_read call of an iteration asks for offset
\* s1 + ... + s(k-1), the records received before it, with limit `batch`; the
\* records handed out are those received, in page order, all of them once the
\* empty page has come; only the last page received may be empty, a short
\* page does not end the iteration, and no call follows the empty page: m
\* non-empty pages take m + 1 calls.
C13_OffsetsAreRunningSums ==
  LET requests == gen.requests
      pages == gen.pages
  IN  /\ Len(requests) \in {Len(pages), Len(pages) + 1}
      /\ Len(requests) = Len(pages) + 1 => (gen.state = "running" \/ lastResult.kind = "raise")
      /\ Len(requests) <= remote + 1
      /\ \A k \in 1..Len(requests) :
           /\ OffsetOf(requests[k]) = Received(k - 1)
           /\ requests[k].map.limit = JInt(gen.batch)
      /\ \A k \in 1..Len(pages) :
           pages[k] = <<>> => (k = Len(pages) /\ gen.state = "finished")
      /\ Len(gen.yielded) <= Len(Flatten(pages))
      /\ gen.yielded = SubSeq(Flatten(pages), 1, Len(gen.yielded))
      /\ IterationComplete =>
           /\ gen.yielded = Flatten(pages)
           /\ Len(requests) = Len(pages)
           /\ lastResult = Raised("StopIteration", Null)

\* pages of one record each were received although two were asked for, then
\* the empty page: three calls, at offsets 0, 1 and 2
C13_Witness ==
  /\ IterationComplete
  /\ gen.batch = 2
  /\ Len(gen.pages) = 3
  /\ Len(gen.pages[1]) = 1
  /\ gen.yielded = <<Record(1), Record(2)>>
  /\ OffsetOf(gen.requests[3]) = 2

(* ------------------------------- C14 ---------------------------------- *)
\* the consumer holds a generator that has not ended
Consuming == gen.state \in {"created", "running", "suspended"}

\* C14: whatever page size was given, a consumer that keeps asking the
\* generator for the next item reaches its end.
C14_IterationEnds == Consuming ~> (gen.state = "finished")

\* an iteration with page size 0 over a collection of two records has ended
\* after handing out both
C14_Witness ==
  /\ IterationComplete
  /\ gen.batch = 0
  /\ remote = 2
  /\ Len(gen.yielded) = 2

(* ------------------------------- C15 ---------------------------------- *)
\* C15: making the generator frames no call; a step that frames a
\* search_read call for it is either its first, and asks for offset 0, or comes
\* when every record of the pages received has been handed out, and asks for
\* their number.
C15_LazyAndRestartable ==
  [][/\ gen'.state = "created" => (rpcCalls' = rpcCalls /\ pc' = "idle" /\ gen'.requests = <<>>)
     /\ Len(gen'.requests) > Len(gen.requests) =>
          LET asked == OffsetOf(Last(gen'.requests))
          IN  /\ gen.state # "running"
              /\ gen.pos = Len(gen.records)
              /\ Len(gen.yielded) = Received(Len(gen.pages))
              /\ asked = Len(gen.yielded)
              /\ gen.state = "created" => asked = 0]_vars

\* a generator made after an abandoned one had reached offset 1 has handed out
\* the first record of the collection, from a call that asked for offset 0
C15_Witness ==
  /\ gen.before > 0
  /\ gen.state = "suspended"
  /\ Len(gen.requests) = 1
  /\ OffsetOf(gen.requests[1]) = 0
  /\ gen.yielded = <<Record(1)>>

(* ------------------------------- C16 ---------------------------------- *)
\* the write calls among the calls framed for the running operation
WriteCalls ==
  SelectSeq(sent, LAMBDA c : /\ c.service = _OBJECT
                             /\ c.method = "execute_kw"
                             /\ c.args[5] = JStr("write"))

\* the metadata describes a state field that has a selection
HasStateSelection(meta) ==
  /\ meta.t = "dict"
  /\ "state" \in DOMAIN meta.map
  /\ "selection" \in DOMAIN meta.map.state.map

\* the items of the state selection whose label is the given one up to case
Matching(meta, label) ==
  IF ~HasStateSelection(meta) THEN <<>>
  ELSE SelectSeq(meta.map.state.map.selection.items,
                 LAMBDA item : Lower(item.label) = Lower(label.s))

\* the values the update of a move is documented to carry
ExpectedVals(frame) ==
  LET hits == IF Truthy(frame.state_label)
                THEN Matching(frame.meta, frame.state_label) ELSE <<>>
  IN  IF hits = <<>>
        THEN [stage_id |-> JInt(frame.stage_id)]
        ELSE [stage_id |-> JInt(frame.stage_id), state |-> JStr(hits[1].code)]

\* move_task returned to its caller
MoveTaskReturned == op = "move_task" /\ pc = "idle" /\ lastResult.kind = "return"

\* C16: move_task frames at most one write call, and exactly one when it
\* returns; the call is on the task model with args [[task_id], vals], where
\* vals holds stage_id and, when a label was given and the state selection
\* has labels equal to it up to case, state = the code of the first of them;
\* otherwise vals holds stage_id alone. A label without match, a state field
\* without selection or a missing state field is no error: StopIteration and
\* KeyError never reach the caller.
C16_OneUpdateWithMatchedState ==
  op = "move_task" =>
    /\ Len(WriteCalls) <= 1
    /\ MoveTaskReturned => Len(WriteCalls) = 1
    /\ \A k \in 1..Len(WriteCalls) :
         /\ loc.phase = "update_task"
         /\ WriteCalls[k] = Last(sent)
         /\ WriteCalls[k].args[4] = JStr(_TASK_MODEL)
         /\ WriteCalls[k].args[6] = JSeq(<<JSeq(<<JInt(loc.task_id)>>), JObj(ExpectedVals(loc))>>)
    /\ lastResult.exc \notin {"StopIteration", "KeyError"}
    /\ (pc = "idle" /\ lastResult.exc = "TypeError") =>
         Last(wire).outcome.body.result \in {Absent, Null}

\* the label "DoNe" was looked up in a selection that has "Done" before
\* "DONE", and the move carried the code of "Done"
C16_Witness ==
  /\ MoveTaskReturned
  /\ loc.state_label = JStr("DoNe")
  /\ Len(Matching(loc.meta, loc.state_label)) = 2
  /\ Len(WriteCalls) = 1
  /\ loc.vals = [stage_id |-> JInt(5), state |-> JStr("b")]

(* ------------------------------- C17 ---------------------------------- *)
\* the exception the last submission of the running call ends the call with
FinalError ==
  LET entry == Last(wire)
      o == entry.outcome
      result == IF o.body.result = Absent THEN Null ELSE o.body.result
  IN  IF o.kind # "ok" THEN Raised(o.kind, ExcValue(o))
      ELSE IF o.body.error # Absent THEN Raised("RPCError", o.body.error)
      ELSE IF entry.payload.method = "authenticate" /\ ~IsInstanceInt(result)
        THEN Raised("AuthenticationError", result)
      ELSE NoResult

\* C17: a submission that fails without being the last of its call is a
\* transient failure _post retries; the exception a call ends with is what
\* the operation raises to its caller; the try block of move_task catches
\* nothing but the StopIteration and KeyError of an unmatched lookup, and when
\* the lookup call of move_task fails no write call is framed.
C17_ErrorsReachTheCaller ==
  /\ \A i \in 1..Len(wire) - 1 : Transient(wire[i].outcome)
  /\ (pc = "idle" /\ wire # <<>> /\ FinalError # NoResult) =>
       /\ lastResult = FinalError
       /\ (op = "move_task" /\ loc.phase = "selection_labels") => Len(WriteCalls) = 0
  /\ op = "move_task" => loc.caught \in {"", "StopIteration", "KeyError"}

\* the metadata lookup of move_task was answered by an error body: the caller
\* got the RPCError and only the lookup had been framed
C17_Witness ==
  /\ op = "move_task"
  /\ pc = "idle"
  /\ loc.phase = "selection_labels"
  /\ Last(sent).method = "execute_kw"
  /\ Last(sent).args[5] = JStr("fields_get")
  /\ lastResult.exc = "RPCError"
  /\ Len(WriteCalls) = 0

(* ------------------------------- C19 ---------------------------------- *)
\* the write or unlink call of the running route was answered with a falsy
\* result, which the helper of the client returns as the flag False
CoreReturnedFalsy ==
  /\ op \in Routes
  /\ pc = "idle"
  /\ wire # <<>>
  /\ Last(wire).payload.method = "execute_kw"
  /\ Last(wire).payload.args[5] \in {JStr("write"), JStr("unlink")}
  /\ Last(wire).outcome.kind = "ok"
  /\ Last(wire).outcome.body.error = Absent
  /\ ~Truthy(IF Last(wire).outcome.body.result = Absent
               THEN Null ELSE Last(wire).outcome.body.result)

\* C19: a route that updates, archives, moves or deletes answers 404 when
\* the helper of the client it calls returns a falsy flag.
C19_FalsyFlagAnswers404 ==
  CoreReturnedFalsy => lastResult = Raised("HTTPException", JInt(404))

(* ------------------------------- C20 ---------------------------------- *)
\* the reply that made authenticate() return the token now cached
TokenReply == IF op = "authenticate" THEN Last(wire) ELSE authReply

\* a call framed by the running operation uses its namespace as the code does
CallInItsNamespace(c) ==
  /\ c.service \in {_COMMON, _OBJECT}
  /\ c.service = _COMMON <=> c.method \in {"authenticate", "version"}
  /\ c.method = "authenticate" =>
       c.args = <<JStr(cfg.db), JStr(cfg.username), JStr(cfg.api_key), JDict("{}")>>
  /\ c.method = "version" => c.args = <<>>
  /\ c.service = _OBJECT =>
       /\ c.method \in {"execute_kw", "execute"}
       /\ Len(c.args) > 3
       /\ SubSeq(c.args, 1, 3) = <<JStr(cfg.db), uid, JStr(cfg.api_key)>>
       /\ ~IsNone(uid)

OwnClients == callers # NoCallers /\ ~callers.shared

C23_SameDecision ==
  /\ KwNeedsAuth(uid) <=> BatchNeedsAuth(uid)
  /\ BatchNeedsAuth(uid) <=> IsNone(uid)

(* ------------------------------- C24 ---------------------------------- *)
\* the running operation ended in an error
EndedInError == pc = "idle" /\ lastResult.kind = "raise"

\* C24 as stated: an operation that ends in an error leaves uid as it was
\* when the operation began.
C24_ErrorLeavesUidAsItWas == EndedInError => uid = uid0

\* this step is the return of authenticate(), and uid' is what it returns
AuthenticateReturns ==
  /\ pc = "post"
  /\ payload.service = _COMMON /\ payload.method = "authenticate"
  /\ IsInstanceInt(uid')
  /\ LET reply == IF op = "authenticate" THEN Last(wire') ELSE authReply'
     IN  /\ reply.outcome.kind = "ok"
         /\ reply.outcome.body.error = Absent
         /\ reply.outcome.body.result = uid'

\* C24: no step changes the configuration; uid changes only in the step in
\* which authenticate() returns, to the value it returns, so never to None;
\* the step in which an operation ends in an error leaves uid alone, and
\* uid then differs from its value at the start of the operation only if
\* the operation's own authentication had returned.
C24_OnlyAuthenticateChangesUid ==
  [][/\ cfg' = cfg
     /\ uid' # uid => AuthenticateReturns
     /\ ~IsNone(uid) => ~IsNone(uid')
     /\ (pc' = "idle" /\ lastResult'.kind = "raise") =>
          /\ uid' = uid
          /\ uid' # uid0' => (op' \in LazyOps /\ authReply' # NoEntry)]_vars

\* execute_kw on a fresh client authenticated and then got an RPC error:
\* the token stays cached
C24_Witness ==
  /\ EndedInError
  /\ op = "execute_kw"
  /\ lastResult.exc = "RPCError"
  /\ IsNone(uid0)
  /\ uid = JInt(7)

(* ------------------------------- C25 ---------------------------------- *)
\* C25: every submission of one _json_rpc call carries the envelope framed
\* before the first attempt: the same id and the same service, method and
\* arguments, which are those of the call.
C25_RetriesResubmitTheEnvelope ==
  /\ \A i \in 1..Len(wire) :
       /\ wire[i].payload = wire[1].payload
       /\ wire[i].payload.id \in usedIds
       /\ wire[i].payload.service = Last(sent).service
       /\ wire[i].payload.method = Last(sent).method
       /\ wire[i].payload.args = Last(sent).args
  /\ (pc = "post" /\ wire # <<>>) => payload = wire[1].payload

\* execute_batch was answered on the second submission, after one retry
C25_Witness ==
  /\ op = "execute_batch"
  /\ pc = "idle"
  /\ Len(wire) = 2
  /\ Transient(wire[1].outcome)
  /\ wire[2].outcome.kind = "ok"
  /\ wire[2].attempt = 1
  /\ wire[2].payload.id = wire[1].payload.id
====
